---- MODULE Spec2Model ----
(***************************************************************************)
(* Model of frontend/src/core/i18n.ts (locale catalog, locale              *)
(* normalisation, updateSupportedLanguages, applyDefaultLocale) and of the *)
(* AppConfigLoader component that calls them from a React effect.          *)
(*                                                                         *)
(* A JavaScript string is modelled as the sequence of its characters, each *)
(* character a one-character TLA+ string, so that replaceAll, split and    *)
(* toLowerCase are computed and not assumed.  null / undefined and the     *)
(* non-string value an inherited property lookup yields are sequences of   *)
(* one pseudo-character that no real string contains.                      *)
(***************************************************************************)
EXTENDS Integers, Sequences, FiniteSets, TLC

VARIABLES
    language,        \* i18n.language
    supportedLngs,   \* i18n.options.supportedLngs
    i18nextLng,      \* localStorage['i18nextLng'] (Null when the key is absent)
    config,          \* useAppConfig().config: [ref, languages, defaultLocale]
    loading,         \* useAppConfig().loading
    deps,            \* [config, loading] dependency array of the last effect run
    nextRef,         \* identity of the next config object the loader creates
    step,            \* which operation made the last step
    calls,           \* the i18n calls the last step made, in order
    hist,            \* the i18n state before the last step and after each call
    locale,          \* argument of the last normalizeLocale evaluation
    result           \* value normalizeLocale returned for it

vars == <<language, supportedLngs, i18nextLng, config, loading, deps, nextRef,
          step, calls, hist, locale, result>>

----------------------------------------------------------------------------
(* Bounds of the model *)

\* number of config objects the loader delivers in one run
MaxConfigs == 2

\* longest string over NormAlphabet given to normalizeLocale
MaxLen == 2

----------------------------------------------------------------------------
(* JavaScript values and string primitives *)

Null == <<"null">>
Undefined == <<"undefined">>
\* Object.prototype.constructor, the value a plain object yields for the
\* key 'constructor': a function, not a string
InheritedProperty == <<"function Object() { [native code] }">>

Truthy(v) == v # Null /\ v # Undefined /\ v # <<>>

Upper == <<"A","B","C","D","E","F","G","H","I","J","K","L","M",
           "N","O","P","Q","R","S","T","U","V","W","X","Y","Z">>
Lower == <<"a","b","c","d","e","f","g","h","i","j","k","l","m",
           "n","o","p","q","r","s","t","u","v","w","x","y","z">>

toLowerCaseChar(c) ==
    IF \E i \in 1..Len(Upper) : Upper[i] = c
    THEN Lower[CHOOSE i \in 1..Len(Upper) : Upper[i] = c]
    ELSE c

RECURSIVE toLowerCase(_)
toLowerCase(s) ==
    IF s = <<>> THEN <<>>
    ELSE <<toLowerCaseChar(Head(s))>> \o toLowerCase(Tail(s))

RECURSIVE replaceAll(_, _, _)
replaceAll(s, a, b) ==
    IF s = <<>> THEN <<>>
    ELSE <<IF Head(s) = a THEN b ELSE Head(s)>> \o replaceAll(Tail(s), a, b)

\* s.split(sep)[0]: the part before the first sep, all of s when it has none
RECURSIVE splitFirst(_, _)
splitFirst(s, sep) ==
    IF s = <<>> \/ Head(s) = sep THEN <<>>
    ELSE <<Head(s)>> \o splitFirst(Tail(s), sep)

Range(seq) == {seq[i] : i \in 1..Len(seq)}

----------------------------------------------------------------------------
(* Locale catalog *)

enGB == <<"e","n","-","G","B">>

\* Object.keys(supportedLanguages), in insertion order
supportedLanguages ==
    <<
       <<"e","n","-","G","B">>,   \* en-GB
       <<"a","r","-","A","R">>,   \* ar-AR
       <<"a","z","-","A","Z">>,   \* az-AZ
       <<"b","g","-","B","G">>,   \* bg-BG
       <<"c","a","-","C","A">>,   \* ca-CA
       <<"c","s","-","C","Z">>,   \* cs-CZ
       <<"d","a","-","D","K">>,   \* da-DK
       <<"d","e","-","D","E">>,   \* de-DE
       <<"e","l","-","G","R">>,   \* el-GR
       <<"e","s","-","E","S">>,   \* es-ES
       <<"e","u","-","E","S">>,   \* eu-ES
       <<"f","a","-","I","R">>,   \* fa-IR
       <<"f","r","-","F","R">>,   \* fr-FR
       <<"g","a","-","I","E">>,   \* ga-IE
       <<"h","i","-","I","N">>,   \* hi-IN
       <<"h","r","-","H","R">>,   \* hr-HR
       <<"h","u","-","H","U">>,   \* hu-HU
       <<"i","d","-","I","D">>,   \* id-ID
       <<"i","t","-","I","T">>,   \* it-IT
       <<"j","a","-","J","P">>,   \* ja-JP
       <<"k","o","-","K","R">>,   \* ko-KR
       <<"m","l","-","M","L">>,   \* ml-ML
       <<"n","l","-","N","L">>,   \* nl-NL
       <<"n","o","-","N","B">>,   \* no-NB
       <<"p","l","-","P","L">>,   \* pl-PL
       <<"p","t","-","B","R">>,   \* pt-BR
       <<"p","t","-","P","T">>,   \* pt-PT
       <<"r","o","-","R","O">>,   \* ro-RO
       <<"r","u","-","R","U">>,   \* ru-RU
       <<"s","k","-","S","K">>,   \* sk-SK
       <<"s","l","-","S","I">>,   \* sl-SI
       <<"s","r","-","L","A","T","N","-","R","S">>,   \* sr-LATN-RS
       <<"s","v","-","S","E">>,   \* sv-SE
       <<"t","h","-","T","H">>,   \* th-TH
       <<"t","r","-","T","R">>,   \* tr-TR
       <<"u","k","-","U","A">>,   \* uk-UA
       <<"v","i","-","V","N">>,   \* vi-VN
       <<"z","h","-","B","O">>,   \* zh-BO
       <<"z","h","-","C","N">>,   \* zh-CN
       <<"z","h","-","T","W">>   \* zh-TW
    >>

CatalogCodes == Range(supportedLanguages)

\* Property names every object literal inherits from Object.prototype
ObjectPrototypeKeys ==
    { <<"c","o","n","s","t","r","u","c","t","o","r">>,
      <<"t","o","S","t","r","i","n","g">>,
      <<"v","a","l","u","e","O","f">>,
      <<"h","a","s","O","w","n","P","r","o","p","e","r","t","y">> }

\* key in supportedLanguages: own keys and inherited ones
inSupportedLanguages(key) ==
    key \in CatalogCodes \/ key \in ObjectPrototypeKeys

\* obj[key] of a Record<string, string> built from {}: own entry, else the
\* inherited property, else undefined
Get(obj, key) ==
    IF key \in DOMAIN obj THEN obj[key]
    ELSE IF key \in ObjectPrototypeKeys THEN InheritedProperty
    ELSE Undefined

baseLangOf(code) == toLowerCase(splitFirst(code, "-"))

\* the loop over Object.keys(supportedLanguages): a base language gets the
\* first code that has it, and no entry when the lookup is already truthy
FirstWithBase(baseLang) ==
    supportedLanguages[
        CHOOSE i \in 1..Len(supportedLanguages) :
            /\ baseLangOf(supportedLanguages[i]) = baseLang
            /\ \A j \in 1..(i - 1) : baseLangOf(supportedLanguages[j]) # baseLang]

\* the loop's result with the special case 'en' -> 'en-GB' assigned last
baseLanguageToFullCode ==
    [baseLang \in ({baseLangOf(c) : c \in CatalogCodes} \ ObjectPrototypeKeys)
                  \cup {<<"e","n">>} |->
        IF baseLang = <<"e","n">> THEN enGB ELSE FirstWithBase(baseLang)]

convertDetectedLanguage(lng) ==
    IF inSupportedLanguages(lng) THEN lng
    ELSE LET baseLang == toLowerCase(splitFirst(lng, "-"))
             mappedLang == Get(baseLanguageToFullCode, baseLang)
         IN  IF Truthy(mappedLang) THEN mappedLang ELSE lng

normalizeLocale(loc) ==
    LET normalized == replaceAll(loc, "_", "-")
    IN  IF inSupportedLanguages(normalized) THEN normalized
        ELSE LET baseLang == toLowerCase(splitFirst(normalized, "-"))
                 mappedLang == Get(baseLanguageToFullCode, baseLang)
             IN  IF Truthy(mappedLang) THEN mappedLang ELSE normalized

----------------------------------------------------------------------------
(* The i18n singleton: [language, supportedLngs, i18nextLng] *)

I18nState == [language |-> language, supportedLngs |-> supportedLngs,
              i18nextLng |-> i18nextLng]

\* i18n.changeLanguage(lng): the language becomes lng, and the detector
\* configured with caches: ['localStorage'] stores it under 'i18nextLng'
changeLanguage(s, lng) ==
    [s EXCEPT !.language = lng, !.i18nextLng = lng]

\* Array.from(new Set(items)): first occurrences, in order
RECURSIVE Dedupe(_, _)
Dedupe(items, seen) ==
    IF items = <<>> THEN <<>>
    ELSE IF Head(items) \in seen THEN Dedupe(Tail(items), seen)
    ELSE <<Head(items)>> \o Dedupe(Tail(items), seen \cup {Head(items)})

RECURSIVE FilterValid(_)
FilterValid(langs) ==
    IF langs = <<>> THEN <<>>
    ELSE IF inSupportedLanguages(Head(langs))
         THEN <<Head(langs)>> \o FilterValid(Tail(langs))
         ELSE FilterValid(Tail(langs))

\* configLanguages absent (null / undefined)
NullList == <<Null>>

\* updateSupportedLanguages without the switch to the fallback language
updateSupportedLanguages_NoFallbackSwitch(s, configLanguages) ==
    IF configLanguages = NullList \/ Len(configLanguages) = 0 THEN s
    ELSE LET validLanguages == FilterValid(Dedupe(<<enGB>> \o configLanguages, {}))
         IN  IF Len(validLanguages) > 0
             THEN [s EXCEPT !.supportedLngs = validLanguages]
             ELSE s

\* updateSupportedLanguages without 'en-GB' added to the requested codes
updateSupportedLanguages_NoFallbackInjected(s, configLanguages) ==
    IF configLanguages = NullList \/ Len(configLanguages) = 0 THEN s
    ELSE LET validLanguages == FilterValid(Dedupe(configLanguages, {}))
         IN  IF Len(validLanguages) > 0
             THEN LET t == [s EXCEPT !.supportedLngs = validLanguages]
                  IN  IF Truthy(t.language)
                         /\ t.language \notin Range(validLanguages)
                      THEN changeLanguage(t, enGB)
                      ELSE t
             ELSE s

updateSupportedLanguages(s, configLanguages) ==
    IF configLanguages = NullList \/ Len(configLanguages) = 0 THEN s
    ELSE LET languagesToSupport == Dedupe(<<enGB>> \o configLanguages, {})
             validLanguages == FilterValid(languagesToSupport)
         IN  IF Len(validLanguages) > 0
             THEN LET t == [s EXCEPT !.supportedLngs = validLanguages]
                      currentLang == t.language
                  IN  IF Truthy(currentLang)
                         /\ currentLang \notin Range(validLanguages)
                      THEN changeLanguage(t, enGB)
                      ELSE t
             ELSE s

\* applyDefaultLocale without the check of the stored preference
applyDefaultLocale_IgnoresPreference(s, defaultLocale) ==
    IF ~Truthy(defaultLocale) THEN s
    ELSE LET normalizedLocale == normalizeLocale(defaultLocale)
         IN  IF inSupportedLanguages(normalizedLocale)
             THEN changeLanguage(s, normalizedLocale)
             ELSE s

applyDefaultLocale(s, defaultLocale) ==
    IF ~Truthy(defaultLocale) THEN s
    ELSE LET userPreference == s.i18nextLng
         IN  IF Truthy(userPreference) THEN s
             ELSE LET normalizedLocale == normalizeLocale(defaultLocale)
                  IN  IF inSupportedLanguages(normalizedLocale)
                      THEN changeLanguage(s, normalizedLocale)
                      ELSE s

----------------------------------------------------------------------------
(* AppConfigLoader *)

NoConfig == [ref |-> 0, languages |-> NullList, defaultLocale |-> Null]

Call(fn, arg) == [fn |-> fn, arg |-> arg]

\* effect body with the two calls in the opposite order
effectCalls_DefaultFirst(cfg, ld) ==
    IF ~ld /\ cfg # NoConfig
    THEN << Call("applyDefaultLocale", cfg.defaultLocale),
            Call("updateSupportedLanguages", cfg.languages) >>
    ELSE <<>>

\* body of the effect: the calls it makes for the (config, loading) it sees
effectCalls(cfg, ld) ==
    IF ~ld /\ cfg # NoConfig
    THEN << Call("updateSupportedLanguages", cfg.languages),
            Call("applyDefaultLocale", cfg.defaultLocale) >>
    ELSE <<>>

Apply(s, call) ==
    IF call.fn = "updateSupportedLanguages"
    THEN updateSupportedLanguages(s, call.arg)
    ELSE applyDefaultLocale(s, call.arg)

\* the i18n state before the first call and after each call
RECURSIVE Run(_, _)
Run(s, cs) ==
    IF cs = <<>> THEN <<s>>
    ELSE <<s>> \o Run(Apply(s, Head(cs)), Tail(cs))

----------------------------------------------------------------------------
(* Inputs *)

deDE == <<"d","e","-","D","E">>
jaJP == <<"j","a","-","J","P">>
zzZZ == <<"z","z","-","Z","Z">>
toStringKey == <<"t","o","S","t","r","i","n","g">>

\* config.languages values the server may deliver
LanguageArgs ==
    { NullList, <<>>, <<deDE>>, <<zzZZ>>, <<toStringKey>>,
      <<deDE, zzZZ>>, <<toStringKey, deDE>>, <<jaJP, deDE, enGB>> }

\* config.defaultLocale values the server may deliver
DefaultArgs ==
    { Null, <<>>, <<"d","e","_","D","E">>, jaJP, <<"p","t">>,
      <<"x","x","-","Y","Y">>, toStringKey }

\* languages the browser detector may report at start-up
DetectedArgs == { <<"d","e">>, jaJP, <<"e","n","-","U","S">>, <<"x","x">> }

\* languages the user may pick in the language selector
UserChoices == { enGB, deDE, jaJP }

----------------------------------------------------------------------------
(* Specification of the running application *)

\* i18n.init: the detected language, converted, when it is supported;
\* fallbackLng otherwise
initialLanguage(detected) ==
    LET lng == convertDetectedLanguage(detected)
    IN  IF lng \in CatalogCodes THEN lng ELSE enGB

\* After i18n.init and before the first effect run (deps = <<>>).  The
\* 'i18nextLng' key holds the language the detector cached, or is absent
\* (nothing cached, or the entry was removed from storage).
Init ==
    /\ \E d \in DetectedArgs : language = initialLanguage(d)
    /\ supportedLngs = supportedLanguages
    /\ i18nextLng \in {Null, language}
    /\ config = NoConfig
    /\ loading \in BOOLEAN
    /\ deps = <<>>
    /\ nextRef = 1
    /\ step = "init"
    /\ calls = <<>>
    /\ hist = <<I18nState>>
    /\ locale = Null
    /\ result = Null

Unchanged18n == UNCHANGED <<language, supportedLngs, i18nextLng>>

\* the loader starts or finishes a (re)load
SetLoading ==
    /\ loading' = ~loading
    /\ step' = "env"
    /\ calls' = <<>>
    /\ hist' = <<I18nState>>
    /\ Unchanged18n
    /\ UNCHANGED <<config, deps, nextRef, locale, result>>

\* the loader publishes a freshly fetched config object
ProvideConfig ==
    /\ nextRef <= MaxConfigs
    /\ \E ls \in LanguageArgs, d \in DefaultArgs :
          config' = [ref |-> nextRef, languages |-> ls, defaultLocale |-> d]
    /\ nextRef' = nextRef + 1
    /\ step' = "env"
    /\ calls' = <<>>
    /\ hist' = <<I18nState>>
    /\ Unchanged18n
    /\ UNCHANGED <<loading, deps, locale, result>>

\* the user picks a language in the selector
UserChangeLanguage ==
    /\ \E lng \in UserChoices :
          LET s == changeLanguage(I18nState, lng)
          IN  /\ language' = s.language
              /\ supportedLngs' = s.supportedLngs
              /\ i18nextLng' = s.i18nextLng
              /\ hist' = <<s>>
    /\ step' = "user"
    /\ calls' = <<>>
    /\ UNCHANGED <<config, loading, deps, nextRef, locale, result>>

\* useEffect(..., [config, loading]): runs after mount and after a render in
\* which config (by identity) or loading differs from the last run
AppConfigLoaderEffect ==
    /\ deps # <<config.ref, loading>>
    /\ deps' = <<config.ref, loading>>
    /\ LET cs == effectCalls(config, loading)
           h == Run(I18nState, cs)
           s == h[Len(h)]
       IN  /\ calls' = cs
           /\ hist' = h
           /\ language' = s.language
           /\ supportedLngs' = s.supportedLngs
           /\ i18nextLng' = s.i18nextLng
    /\ step' = "effect"
    /\ UNCHANGED <<config, loading, nextRef, locale, result>>

Next ==
    \/ SetLoading
    \/ ProvideConfig
    \/ UserChangeLanguage
    \/ AppConfigLoaderEffect

Spec == Init /\ [][Next]_vars

----------------------------------------------------------------------------
(* Specification of normalizeLocale alone *)

NormAlphabet == {"p", "t", "E", "n", "-", "_"}

RECURSIVE StringsUpTo(_)
StringsUpTo(n) ==
    IF n = 0 THEN {<<>>}
    ELSE LET shorter == StringsUpTo(n - 1)
         IN  shorter \cup {<<c>> \o w : c \in NormAlphabet, w \in shorter}

\* c.replace('-', '_'): only the first hyphen
RECURSIVE replaceFirst(_, _, _)
replaceFirst(str, a, b) ==
    IF str = <<>> THEN <<>>
    ELSE IF Head(str) = a THEN <<b>> \o Tail(str)
    ELSE <<Head(str)>> \o replaceFirst(Tail(str), a, b)

NormInputs ==
    CatalogCodes
    \cup {replaceAll(c, "-", "_") : c \in CatalogCodes}
    \cup {replaceFirst(c, "-", "_") : c \in CatalogCodes}
    \cup {baseLangOf(c) : c \in CatalogCodes}
    \cup ObjectPrototypeKeys
    \cup { <<"e","n","-","U","S">>, <<"E","N">>, <<"D","e","_","a","t">>, <<"x","x","-","Y","Y">>,
           <<"z","h","_","T","W">>, <<"Z","H","-","x","x">>, <<"c","o","n","s","t","r","u","c","t","o","r","-","X","X">> }
    \cup StringsUpTo(MaxLen)

NormInit ==
    /\ locale \in NormInputs
    /\ result = Null
    /\ language = enGB
    /\ supportedLngs = supportedLanguages
    /\ i18nextLng = Null
    /\ config = NoConfig
    /\ loading = TRUE
    /\ deps = <<>>
    /\ nextRef = 1
    /\ step = "init"
    /\ calls = <<>>
    /\ hist = <<I18nState>>

NormFrame == UNCHANGED <<language, supportedLngs, i18nextLng, config, loading,
                         deps, nextRef, step, calls, hist>>

Normalize ==
    /\ result = Null
    /\ result' = normalizeLocale(locale)
    /\ UNCHANGED locale
    /\ NormFrame

NormPick ==
    /\ result # Null
    /\ locale' \in NormInputs
    /\ result' = Null
    /\ NormFrame

NormNext == Normalize \/ NormPick

SpecNorm == NormInit /\ [][NormNext]_vars

----------------------------------------------------------------------------
(* Properties *)

CallIdx == 1..Len(calls)
IsRestrict(i) == calls[i].fn = "updateSupportedLanguages"
IsApplyDefault(i) == calls[i].fn = "applyDefaultLocale"
Before(i) == hist[i]
After(i) == hist[i + 1]
Members(s) == Range(s.supportedLngs)
NonEmptyList(ls) == ls # NullList /\ ls # <<>>
SameLocaleAndSet(a, b) ==
    a.language = b.language /\ a.supportedLngs = b.supportedLngs

\* C1: whenever applyDefault is called while the persisted 'i18nextLng'
\* value is present and non-empty, ActiveLocale and SupportedSet are the
\* same after the call as before it.
C1_PreferenceWins ==
    \A i \in CallIdx :
        (IsApplyDefault(i) /\ Truthy(Before(i).i18nextLng))
            => SameLocaleAndSet(After(i), Before(i))

\* C1 witness: applyDefault was called with a preference stored and a default
\* that would otherwise have switched the language.
C1_Witness ==
    \E i \in CallIdx :
        /\ IsApplyDefault(i)
        /\ Truthy(Before(i).i18nextLng)
        /\ Truthy(calls[i].arg)
        /\ normalizeLocale(calls[i].arg) \in CatalogCodes
        /\ normalizeLocale(calls[i].arg) # Before(i).language

\* C2: for a non-empty L holding at least one catalog code, the SupportedSet
\* after restrict(L) is exactly (L union {en-GB}) intersected with the
\* catalog codes.
C2_RestrictIsIntersection ==
    \A i \in CallIdx :
        (/\ IsRestrict(i)
         /\ NonEmptyList(calls[i].arg)
         /\ Range(calls[i].arg) \cap CatalogCodes # {})
            => Members(After(i)) =
                   (Range(calls[i].arg) \cup {enGB}) \cap CatalogCodes

\* C3: after a restrict that replaces the set, ActiveLocale is unchanged when
\* it is a member of the new set and en-GB otherwise, hence always a member.
C3_ActiveLocaleInSet ==
    \A i \in CallIdx :
        (IsRestrict(i) /\ NonEmptyList(calls[i].arg))
            => /\ After(i).language =
                      IF Before(i).language \in Members(After(i))
                      THEN Before(i).language ELSE enGB
               /\ After(i).language \in Members(After(i))

\* C3 witness: a restrict found the active locale outside the new set.
C3_Witness ==
    \E i \in CallIdx :
        /\ IsRestrict(i)
        /\ NonEmptyList(calls[i].arg)
        /\ Before(i).language \notin Members(After(i))
        /\ Before(i).language # enGB
        /\ After(i).language = enGB

AllInvalid(ls) == NonEmptyList(ls) /\ Range(ls) \cap CatalogCodes = {}

\* C4 as stated: restrict(L) with every code of L absent from the catalog
\* leaves SupportedSet (and ActiveLocale) unchanged.
C4_AllInvalidLeavesSetUnchanged ==
    \A i \in CallIdx :
        (IsRestrict(i) /\ AllInvalid(calls[i].arg))
            => SameLocaleAndSet(After(i), Before(i))

\* C4 amended: restrict(L) with every code of L absent from the catalog
\* replaces SupportedSet by a set drawn from {en-GB} and L whose only
\* catalog code is en-GB, and ActiveLocale is en-GB afterwards unless it is a
\* member of that set.
C4_AllInvalidCollapsesToFallback ==
    \A i \in CallIdx :
        (IsRestrict(i) /\ AllInvalid(calls[i].arg))
            => /\ Members(After(i)) \cap CatalogCodes = {enGB}
               /\ Members(After(i)) \subseteq {enGB} \cup Range(calls[i].arg)
               /\ After(i).language =
                      IF Before(i).language \in Members(After(i))
                      THEN Before(i).language ELSE enGB

\* C4 witness: an entirely invalid list narrowed a wider set to {en-GB}.
C4_Witness ==
    \E i \in CallIdx :
        /\ IsRestrict(i)
        /\ AllInvalid(calls[i].arg)
        /\ Members(After(i)) = {enGB}
        /\ Members(Before(i)) # {enGB}

\* C5: after restrict(absent) or restrict([]), in any reachable state, the
\* SupportedSet equals the full set of catalog codes.
C5_EmptyRestoresCatalog ==
    \A i \in CallIdx :
        (IsRestrict(i) /\ ~NonEmptyList(calls[i].arg))
            => Members(After(i)) = CatalogCodes

\* C6: with no stored preference, applyDefault(d) sets ActiveLocale to
\* normalize(d) when that is a catalog code and changes nothing when it is
\* not; applyDefault(absent) changes nothing.
C6_DefaultApplied ==
    \A i \in CallIdx :
        (IsApplyDefault(i) /\ ~Truthy(Before(i).i18nextLng))
            => IF calls[i].arg # Null
                  /\ normalizeLocale(calls[i].arg) \in CatalogCodes
               THEN After(i).language = normalizeLocale(calls[i].arg)
               ELSE SameLocaleAndSet(After(i), Before(i))

\* the reference result of C7
RefNormalize(x) ==
    LET h == replaceAll(x, "_", "-")
        base == toLowerCase(splitFirst(h, "-"))
        sameBase == {i \in 1..Len(supportedLanguages) :
                        baseLangOf(supportedLanguages[i]) = base}
    IN  IF h \in CatalogCodes THEN h
        ELSE IF base = <<"e","n">> THEN enGB
        ELSE IF sameBase # {}
             THEN supportedLanguages[CHOOSE i \in sameBase :
                                         \A j \in sameBase : i <= j]
        ELSE h

\* C7: for every input string x, normalize(x) equals the reference result.
C7_NormalizeMatchesReference ==
    result # Null => result = RefNormalize(locale)

\* C8: the watcher makes no call while loading is true or config is absent;
\* when its effect runs with loading false and a config present it calls
\* restrict(config.languages) then applyDefault(config.defaultLocale), once
\* each and nothing else, and no other step makes such calls.
C8_WatcherCalls ==
    /\ step # "effect" => calls = <<>>
    /\ (loading \/ config = NoConfig) => (calls = <<>> /\ hist = <<I18nState>>)
    /\ (step = "effect" /\ ~loading /\ config # NoConfig) =>
          /\ calls = << Call("updateSupportedLanguages", config.languages),
                        Call("applyDefaultLocale", config.defaultLocale) >>
          /\ Len(hist) = 3
          /\ hist[3] = I18nState
          /\ deps = <<config.ref, loading>>

\* C8 witness: an effect run whose two calls both changed the i18n state.
C8_Witness ==
    /\ step = "effect"
    /\ Len(calls) = 2
    /\ hist[1].supportedLngs # hist[2].supportedLngs
    /\ hist[2].language # hist[3].language

\* C9: running the watcher's calls a second time with the same config and no
\* user action in between ends with the same SupportedSet and ActiveLocale.
C9_WatcherIdempotent ==
    (step = "effect" /\ calls # <<>>) =>
        LET again == Run(I18nState, calls)
        IN  SameLocaleAndSet(again[Len(again)], I18nState)

\* C10: no restrict, applyDefault or watcher step writes the persisted
\* 'i18nextLng' value.
C10_PreferenceOnlyByUser ==
    step = "effect" => i18nextLng = hist[1].i18nextLng

====
